---------------------------- MODULE Spec2Model ----------------------------
(***************************************************************************)
(* A model of src/app.py, the Web Log Analytics Dashboard: the record      *)
(* store built by load_data, the filter engine filter_dataframe, the       *)
(* credential mapping USERS and the login / logout / routing callbacks.    *)
(*                                                                         *)
(* Six specifications share the variables:                                 *)
(*   FilterSpec  filter_dataframe as a pure function: Init draws a store   *)
(*               and a criteria value, the actions apply the function.     *)
(*   DashSpec    one dashboard session: filter changes, view callbacks,    *)
(*               reset, navigation and export acting on the global df.     *)
(*   Spec        the login / logout / routing callbacks of one session.    *)
(*   LoadSpec    load_data on the source files of a bounded set.           *)
(*   RaceSpec    two register_user calls on two threads of the server.     *)
(*   ViewSpec    the view callbacks of the home and time pages applied to  *)
(*               the subsets filter_dataframe gives them.                  *)
(***************************************************************************)
EXTENDS Integers, Sequences, FiniteSets, TLC

VARIABLES
    df,             \* the global record store (src/app.py:206)
    continents,     \* value of the 'continent-filter' dropdown
    countries,      \* value of the 'country-filter' dropdown
    age_groups,     \* value of the 'age-group-filter' dropdown
    request_types,  \* value of the 'request-type-filter' dropdown
    start_date,     \* 'date-range'.start_date
    end_date,       \* 'date-range'.end_date
    filtered_df,    \* what the last filter_dataframe call returned
    refiltered_df,  \* what filter_dataframe returned on that result
    view,           \* the view callback that ran last
    current_page,   \* 'current-page'.data
    nav_active,     \* the navigation buttons whose className is 'nav-link active'
    USERS,          \* the in-memory credential mapping (src/app.py:88)
    users_file,     \* the contents of users.pickle
    pathname,       \* 'url'.pathname of the session
    current_user,   \* the account flask-login holds for the session
    page_content,   \* what display_page last put in 'page-content'
    login_error,    \* 'login-error'.children
    register_msg,   \* 'register-error'.children and 'register-success'.children
    last_call,      \* the last session callback and its arguments
    workers,        \* the register_user calls in flight on the server's threads
    view_out,       \* what the last view callback returned
    source_file     \* assets/dashboard_web_server_logs.csv as load_data finds it

vars == << df, continents, countries, age_groups, request_types, start_date,
           end_date, filtered_df, refiltered_df, view, current_page, nav_active,
           USERS, users_file, pathname, current_user, page_content, login_error,
           register_msg, last_call, workers, view_out, source_file >>

criteriaVars == << continents, countries, age_groups, request_types, start_date,
                   end_date >>

dashVars == << df, continents, countries, age_groups, request_types, start_date,
               end_date, filtered_df, refiltered_df, view, current_page,
               nav_active, view_out, source_file >>

sessionVars == << USERS, users_file, pathname, current_user, page_content,
                  login_error, register_msg, last_call, workers >>

-----------------------------------------------------------------------------
(* Bounds of the model.                                                    *)

\* The stores have at most MaxLen records.
MaxLen == 2

\* The timestamps of the records fall on the first MaxDay days of 2023.
MaxDay == 3

\* The stores of the session specification DashSpec have at most DashMaxLen
\* records.
DashMaxLen == 1

-----------------------------------------------------------------------------
(* Time.  An instant is a number of hours since 2023-01-01 00:00; a date   *)
(* is a number of days since 2023-01-01.                                   *)

EpochYear == 2023

HoursPerDay == 24

\* pd.to_datetime(errors='coerce') turns what it cannot parse into NaT.
NaT == -1

\* Series.dt.date of one value: the calendar date of an instant, NaT for NaT.
DtDate(ts) == IF ts = NaT THEN NaT ELSE ts \div HoursPerDay

\* Series.dt.hour of one value.
DtHour(ts) == IF ts = NaT THEN NaT ELSE ts % HoursPerDay

DaysInMonth == << 31, 28, 31, 30, 31, 30, 31, 31, 30, 31, 30, 31 >>

RECURSIVE DaysBeforeMonth(_)
DaysBeforeMonth(m) == IF m <= 1 THEN 0 ELSE DaysInMonth[m - 1] + DaysBeforeMonth(m - 1)

\* A date string 'YYYY-MM-DD' is the triple of its three numbers.
\* datetime.strptime(s, '%Y-%m-%d') raises ValueError unless the month and the
\* day are in range.
StrptimeRaises(s) ==
    \/ s[2] \notin 1..12
    \/ s[3] \notin 1..DaysInMonth[s[2]]

\* datetime.strptime(s, '%Y-%m-%d').date(), as days since 2023-01-01
\* (the model's strings are all of the year 2023).
Strptime(s) == (s[1] - EpochYear) * 365 + DaysBeforeMonth(s[2]) + (s[3] - 1)

\* The month a day of 2023 falls in.
MonthOf(day) ==
    CHOOSE m \in 1..12 :
        DaysBeforeMonth(m) <= day /\ day < DaysBeforeMonth(m) + DaysInMonth[m]

\* The string 'YYYY-MM-DD' the browser gets for a datetime.date.
IsoFormat(day) ==
    [ kind |-> "str",
      ymd |-> << EpochYear, MonthOf(day), day - DaysBeforeMonth(MonthOf(day)) + 1 >> ]

-----------------------------------------------------------------------------
(* Records and stores.  A record is one row of the DataFrame; idx is its   *)
(* index label, which every selection keeps.                               *)

\* (country, continent, age_group, request_type) of the sample rows.
Profiles ==
    << << "United States", "North America", "25-34", "demo" >>,
       << "Canada", "North America", "35-44", "job" >>,
       << "France", "Europe", "25-34", "ai_assistant" >> >>

\* The hour of the sample row of day d: the last hour of the even days, the
\* first hour of the odd ones, so that consecutive rows are one hour apart
\* across midnight (days 0 -> 1) or two days less an hour apart (days 1 -> 2).
SampleHour(d) == IF d % 2 = 0 THEN HoursPerDay - 1 ELSE 0

\* The timestamps of the sample rows, NaT (an unparseable source value) included.
SampleTimes ==
    { d * HoursPerDay + SampleHour(d) : d \in 0..(MaxDay - 1) } \cup { NaT }

\* The sample rows cycle through the profiles as their timestamps grow.
ProfileOf(ts) ==
    IF ts = NaT THEN Profiles[2]
    ELSE Profiles[(DtDate(ts) % Len(Profiles)) + 1]

Row(i, ts) ==
    [ idx          |-> i,
      timestamp    |-> ts,
      country      |-> ProfileOf(ts)[1],
      continent    |-> ProfileOf(ts)[2],
      age_group    |-> ProfileOf(ts)[3],
      request_type |-> ProfileOf(ts)[4] ]

\* A frame: the rows, in order, and the dtype of the timestamp column.
Frame(rows, dtype) == [ rows |-> rows, ts_dtype |-> dtype ]

\* Mutant of LoadedTsDtype: load_data leaves the timestamp column as read from
\* the file, without converting it.
C8_LoadedTsObject == "object"

\* The timestamp column of the store load_data returns is datetime64: it is a
\* date_range, or the result of pd.to_datetime(errors='coerce').
LoadedTsDtype == "datetime64"

\* The source file once load_data has read it: it plays no further part.
SourceRead == [ state |-> "read" ]

\* The stores load_data can return: up to MaxLen rows, index labels 0, 1, ...
Stores ==
    { Frame([ i \in DOMAIN f |-> Row(i - 1, f[i]) ], LoadedTsDtype) :
        f \in UNION { [ 1..k -> SampleTimes ] : k \in 0..MaxLen } }

-----------------------------------------------------------------------------
(* Criteria, as the callbacks receive them from the browser (JSON values). *)

\* A dropdown value: a list of values, None, or (malformed) a bare string.
List(items) == [ kind |-> "list", items |-> items ]
None == [ kind |-> "none", items |-> {} ]
BareString == [ kind |-> "str", items |-> {} ]

\* Python truth of a dropdown value: None and [] are falsy.
Truthy(c) == (c.kind = "list" /\ c.items # {}) \/ c.kind = "str"

\* Series.isin(values) raises TypeError unless values is list-like.
IsinRaises(c) == c.kind = "str"

\* A date bound: a string 'YYYY-MM-DD' (ymd its three numbers), None, or
\* (malformed) a number.
DateStr(y, m, d) == [ kind |-> "str", ymd |-> << y, m, d >> ]
NoDate == [ kind |-> "none", ymd |-> << 0, 0, 0 >> ]
NumberDate == [ kind |-> "number", ymd |-> << 0, 0, 0 >> ]

\* The strings of the first MaxDay days of 2023, '2023-01-01', ...
ValidDateStrs == { DateStr(EpochYear, 1, d) : d \in 1..MaxDay }

\* '2023-13-01': no such month, so strptime raises.
BadDateStr == DateStr(EpochYear, 13, 1)

DateInputs == ValidDateStrs \cup { BadDateStr, NoDate, NumberDate }

\* The values chosen in each dropdown.
ContinentInputs == { List({}), List({"Europe"}), BareString }
CountryInputs == { List({}), List({"United States", "France"}) }
AgeGroupInputs == { List({}), List({"35-44", "65+"}) }
RequestTypeInputs == { List({}), List({"demo", "job"}), None }

-----------------------------------------------------------------------------
(* filter_dataframe (src/app.py:594-633).                                  *)

\* pd.to_datetime(column, errors='coerce'): the column becomes datetime64.
ToDatetime(frame) == Frame(frame.rows, "datetime64")

\* Mutant of EnsureDatetime: the column is also converted to a time zone twelve
\* hours ahead, on every call.
C5_EnsureDatetimeShifted(frame) ==
    Frame([ i \in DOMAIN frame.rows |->
              IF frame.rows[i].timestamp = NaT THEN frame.rows[i]
              ELSE [ frame.rows[i] EXCEPT !.timestamp = @ + (HoursPerDay \div 2) ] ],
          "datetime64")

\* Lines 599-600: the copy's timestamp column is converted unless it already
\* is datetime64.
EnsureDatetime(frame) ==
    IF frame.ts_dtype # "datetime64" THEN ToDatetime(frame) ELSE frame

\* Lines 603-606: a string bound is parsed, anything else is kept as it is.
ParsedBound(b) ==
    IF b.kind = "str" THEN [ kind |-> "date", day |-> Strptime(b.ymd) ]
    ELSE [ kind |-> b.kind, day |-> 0 ]

\* Mutant of ParseRaises: a string that does not parse is let through.
C7_ParseNeverRaises(b) == FALSE

ParseRaises(b) == b.kind = "str" /\ StrptimeRaises(b.ymd)

\* Mutant of DateGE: the lower bound is exclusive.
C3_DateGT(ts, bound) ==
    /\ DtDate(ts) # NaT
    /\ bound.kind = "date"
    /\ DtDate(ts) > bound.day

\* One element of (column.dt.date >= bound): pandas compares the object column
\* with the scalar element by element; a null element or a None scalar gives
\* False.
DateGE(ts, bound) ==
    /\ DtDate(ts) # NaT
    /\ bound.kind = "date"
    /\ DtDate(ts) >= bound.day

\* Mutant of DateLE: the instant is compared with midnight of the bound.
C4_InstantLE(ts, bound) ==
    /\ ts # NaT
    /\ bound.kind = "date"
    /\ ts <= bound.day * HoursPerDay

\* One element of (column.dt.date <= bound).
DateLE(ts, bound) ==
    /\ DtDate(ts) # NaT
    /\ bound.kind = "date"
    /\ DtDate(ts) <= bound.day

\* Mutant of DateCompareRaises: a null element cannot be compared with a date.
C26_NullCompareRaises(rows, bound) ==
    \/ bound.kind = "number" /\ \E i \in DOMAIN rows : rows[i].timestamp # NaT
    \/ bound.kind = "str" /\ \E i \in DOMAIN rows : rows[i].timestamp = NaT

\* Comparing a datetime.date with a number raises TypeError; it happens at the
\* first non-null element.
DateCompareRaises(rows, bound) ==
    /\ bound.kind = "number"
    /\ \E i \in DOMAIN rows : rows[i].timestamp # NaT

Reverse(rows) == [ i \in 1..Len(rows) |-> rows[Len(rows) + 1 - i] ]

\* Mutant of DateFilter: the selection is returned newest first.
C2_DateFilterNewestFirst(rows, s, e) ==
    Reverse(SelectSeq(rows, LAMBDA r : DateGE(r.timestamp, s) /\ DateLE(r.timestamp, e)))

\* Lines 609-610: the rows whose date lies in [start, end].
DateFilter(rows, s, e) ==
    SelectSeq(rows, LAMBDA r : DateGE(r.timestamp, s) /\ DateLE(r.timestamp, e))

\* Mutant of IsinFilter: the step is not skipped for an empty selection.
C1_IsinFilterAlways(rows, field, c) ==
    SelectSeq(rows, LAMBDA r : r[field] \in c.items)

\* Lines 613-626, one step: df[df[field].isin(values)] when values is truthy.
IsinFilter(rows, field, c) ==
    IF Truthy(c) THEN SelectSeq(rows, LAMBDA r : r[field] \in c.items) ELSE rows

\* The body of the try block raises.
FilterRaises(d, conts, ctrs, ages, reqs, s, e) ==
    \/ ParseRaises(s)
    \/ ParseRaises(e)
    \/ DateCompareRaises(d.rows, s)
    \/ DateCompareRaises(d.rows, e)
    \/ Truthy(conts) /\ IsinRaises(conts)
    \/ Truthy(ctrs) /\ IsinRaises(ctrs)
    \/ Truthy(ages) /\ IsinRaises(ages)
    \/ Truthy(reqs) /\ IsinRaises(reqs)

\* The body of the try block when nothing raises.
FilterBody(d, conts, ctrs, ages, reqs, s, e) ==
    LET c0 == EnsureDatetime(d)
        r1 == DateFilter(c0.rows, ParsedBound(s), ParsedBound(e))
        r2 == IsinFilter(r1, "continent", conts)
        r3 == IsinFilter(r2, "country", ctrs)
        r4 == IsinFilter(r3, "age_group", ages)
        r5 == IsinFilter(r4, "request_type", reqs)
    IN  Frame(r5, c0.ts_dtype)

\* Mutant of filter_dataframe: the except branch returns the frame as filtered
\* so far (here: by date) instead of df.
C6_FilterReturnsPartial(d, conts, ctrs, ages, reqs, s, e) ==
    IF FilterRaises(d, conts, ctrs, ages, reqs, s, e)
    THEN [ called |-> TRUE, raised |-> TRUE, is_arg |-> FALSE,
           frame |-> IF \/ ParseRaises(s) \/ ParseRaises(e)
                        \/ DateCompareRaises(d.rows, s) \/ DateCompareRaises(d.rows, e)
                     THEN d
                     ELSE Frame(DateFilter(d.rows, ParsedBound(s), ParsedBound(e)),
                                d.ts_dtype) ]
    ELSE [ called |-> TRUE, raised |-> FALSE,
           frame |-> FilterBody(d, conts, ctrs, ages, reqs, s, e), is_arg |-> FALSE ]

\* filter_dataframe: frame is what it returns, is_arg tells that it is the very
\* object it was given (the except branch returns df, not the copy).
filter_dataframe(d, conts, ctrs, ages, reqs, s, e) ==
    IF FilterRaises(d, conts, ctrs, ages, reqs, s, e)
    THEN [ called |-> TRUE, raised |-> TRUE, frame |-> d, is_arg |-> TRUE ]
    ELSE [ called |-> TRUE, raised |-> FALSE,
           frame |-> FilterBody(d, conts, ctrs, ages, reqs, s, e), is_arg |-> FALSE ]

NotCalled ==
    [ called |-> FALSE, raised |-> FALSE, frame |-> Frame(<< >>, "datetime64"),
      is_arg |-> FALSE ]

-----------------------------------------------------------------------------
(* The credential store (src/app.py:59-95).                                *)

Account(u, p, e) == [ id |-> u, username |-> u, password |-> p, email |-> e ]

\* The two built-in accounts of load_users.
DefaultUsers ==
    [ u \in { "admin", "user" } |->
        IF u = "admin" THEN Account("admin", "password123", "admin@example.com")
        ELSE Account("user", "password124", "user@example.com") ]

\* users.pickle: absent, unreadable, or holding a pickled mapping.
NoFile == [ state |-> "absent", users |-> << >> ]
CorruptFile == [ state |-> "corrupt", users |-> << >> ]
PickleOf(users) == [ state |-> "ok", users |-> users ]

\* Mutant of load_users: an exception while reading leaves nothing to return.
C24_LoadUsersEmptyOnError(file) ==
    IF file.state = "ok" THEN file.users
    ELSE IF file.state = "absent" THEN DefaultUsers
    ELSE << >>

\* load_users (lines 63-75): the pickled mapping, or the defaults when the
\* file is absent or cannot be read.
load_users(file) == IF file.state = "ok" THEN file.users ELSE DefaultUsers

\* The mapping a users.pickle left by an earlier run can hold.
PersistedUsers ==
    { DefaultUsers,
      [ u \in { "admin", "user", "alice" } |->
          IF u = "alice" THEN Account("alice", "Secret1", "alice@example.com")
          ELSE DefaultUsers[u] ] }

\* No account is logged in.
NoUser == "<anonymous>"

\* A session callback and the form values it was given.
Call(op, u, p, e, c) ==
    [ op |-> op, username |-> u, password |-> p, email |-> e, confirm |-> c ]

NoCall == Call("none", "", "", "", "")

NoMsg == [ error |-> "", success |-> "" ]

\* No register_user call is in flight on any thread.
NoWorkers == << >>

\* No view callback has returned yet.
NoOutput == [ kind |-> "none" ]

\* The session and the credential store right after start-up.
SessionInit ==
    /\ users_file \in { NoFile, CorruptFile } \cup { PickleOf(m) : m \in PersistedUsers }
    /\ USERS = load_users(users_file)
    /\ pathname = "/"
    /\ current_user = NoUser
    /\ page_content = "login_layout"
    /\ login_error = ""
    /\ register_msg = NoMsg
    /\ last_call = NoCall
    /\ workers = NoWorkers

\* The session of the dashboard specifications: start-up defaults, untouched.
SessionIdle ==
    /\ users_file = NoFile
    /\ USERS = DefaultUsers
    /\ pathname = "/"
    /\ current_user = NoUser
    /\ page_content = "login_layout"
    /\ login_error = ""
    /\ register_msg = NoMsg
    /\ last_call = NoCall
    /\ workers = NoWorkers

-----------------------------------------------------------------------------
(* FilterSpec: filter_dataframe on every store and criteria of the bounded *)
(* sets, then once more on its own result.                                 *)

Pages == { "home", "map", "time", "requests", "data" }

\* dashboard_layout: 'current-page' starts as 'home', 'nav-home' is active.
NavInit == current_page = "home" /\ nav_active = { "nav-home" }

FilterInit ==
    /\ df \in Stores
    /\ continents \in ContinentInputs
    /\ countries \in CountryInputs
    /\ age_groups \in AgeGroupInputs
    /\ request_types \in RequestTypeInputs
    /\ start_date \in DateInputs
    /\ end_date \in DateInputs
    /\ filtered_df = NotCalled
    /\ refiltered_df = NotCalled
    /\ view = "none"
    /\ view_out = NoOutput
    /\ source_file = SourceRead
    /\ NavInit
    /\ SessionIdle

\* filter_dataframe(df, ...) with the criteria of the state.
CallFilter ==
    /\ ~filtered_df.called
    /\ filtered_df' = filter_dataframe(df, continents, countries, age_groups,
                                       request_types, start_date, end_date)
    /\ UNCHANGED << df, criteriaVars, refiltered_df, view, current_page, nav_active >>
    /\ UNCHANGED << view_out, source_file, sessionVars >>

\* filter_dataframe on the frame the first call returned, same criteria.
CallFilterAgain ==
    /\ filtered_df.called
    /\ ~refiltered_df.called
    /\ refiltered_df' = filter_dataframe(filtered_df.frame, continents, countries,
                                         age_groups, request_types, start_date,
                                         end_date)
    /\ UNCHANGED << df, criteriaVars, filtered_df, view, current_page, nav_active >>
    /\ UNCHANGED << view_out, source_file, sessionVars >>

FilterNext == CallFilter \/ CallFilterAgain

FilterSpec == FilterInit /\ [][FilterNext]_vars

-----------------------------------------------------------------------------
(* DashSpec: one session on the dashboard page.  The browser changes the   *)
(* filter components, Dash runs the callbacks whose outputs are on the     *)
(* page that is shown.                                                     *)

\* The non-null timestamps of a sequence of rows.
Instants(rows) == { rows[i].timestamp : i \in DOMAIN rows } \ { NaT }

\* df['timestamp'].min().date() as the browser gets it: min() skips NaT and is
\* NaT when nothing is left, NaT.date() is NaT, and NaT is sent as null.
min_date(d) ==
    IF Instants(d.rows) = {} THEN NoDate
    ELSE IsoFormat(DtDate(CHOOSE t \in Instants(d.rows) :
                              \A u \in Instants(d.rows) : t <= u))

\* df['timestamp'].max().date() as the browser gets it.
max_date(d) ==
    IF Instants(d.rows) = {} THEN NoDate
    ELSE IsoFormat(DtDate(CHOOSE t \in Instants(d.rows) :
                              \A u \in Instants(d.rows) : u <= t))

\* The session of DashSpec: admin has logged in and '/dashboard' is shown.
SessionOnDashboard ==
    /\ users_file = NoFile
    /\ USERS = DefaultUsers
    /\ pathname = "/dashboard"
    /\ current_user = "admin"
    /\ page_content = "dashboard_layout"
    /\ login_error = ""
    /\ register_msg = NoMsg
    /\ last_call = Call("login", "admin", "password123", "", "")
    /\ workers = NoWorkers

\* The filter components as dashboard_layout creates them (lines 338-398).
LayoutCriteria ==
    /\ continents = List({})
    /\ countries = List({})
    /\ age_groups = List({})
    /\ request_types = List({})
    /\ start_date = min_date(df)
    /\ end_date = max_date(df)

\* Mutant of ResetCriteria: the date range is left as the user set it.
C29_ResetKeepsDates ==
    /\ continents' = List({})
    /\ countries' = List({})
    /\ age_groups' = List({})
    /\ request_types' = List({})
    /\ UNCHANGED << start_date, end_date >>

\* What reset_filters returns (line 983), as the components then hold it.
ResetCriteria ==
    /\ continents' = List({})
    /\ countries' = List({})
    /\ age_groups' = List({})
    /\ request_types' = List({})
    /\ start_date' = min_date(df)
    /\ end_date' = max_date(df)

\* What the date picker sends: a date string, null when cleared, or a string
\* that is no '%Y-%m-%d' date.
PickerDateInputs == ValidDateStrs \cup { NoDate, BadDateStr }

DashInit ==
    /\ df \in { d \in Stores : Len(d.rows) <= DashMaxLen }
    /\ LayoutCriteria
    /\ filtered_df = NotCalled
    /\ refiltered_df = NotCalled
    /\ view = "none"
    /\ view_out = NoOutput
    /\ source_file = SourceRead
    /\ NavInit
    /\ SessionOnDashboard

\* The user edits one filter component; the callbacks that read it are due.
ChangeFilter ==
    /\ \/ \E v \in ContinentInputs :
            continents' = v /\ UNCHANGED << countries, age_groups, request_types, start_date, end_date >>
       \/ \E v \in CountryInputs :
            countries' = v /\ UNCHANGED << continents, age_groups, request_types, start_date, end_date >>
       \/ \E v \in AgeGroupInputs :
            age_groups' = v /\ UNCHANGED << continents, countries, request_types, start_date, end_date >>
       \/ \E v \in RequestTypeInputs \ { None } :
            request_types' = v /\ UNCHANGED << continents, countries, age_groups, start_date, end_date >>
       \/ \E v \in PickerDateInputs :
            start_date' = v /\ UNCHANGED << continents, countries, age_groups, request_types, end_date >>
       \/ \E v \in PickerDateInputs :
            end_date' = v /\ UNCHANGED << continents, countries, age_groups, request_types, start_date >>
    /\ filtered_df' = NotCalled
    /\ view' = "none"
    /\ UNCHANGED << df, refiltered_df, current_page, nav_active >>
    /\ UNCHANGED << view_out, source_file, sessionVars >>

\* The callbacks that only read the frame filter_dataframe hands them, and the
\* page their outputs are on.
ReadOnlyViews ==
    { << "home", "update_metrics" >>, << "map", "update_world_map" >>,
      << "time", "update_hourly_chart" >>, << "data", "update_data_table" >> }

\* update_metrics, update_world_map, update_hourly_chart, update_data_table:
\* filter_dataframe(df, <the six criteria>), then reads of the result.
UpdateReadOnlyView ==
    /\ \E pv \in ReadOnlyViews :
          /\ current_page = pv[1]
          /\ view' = pv[2]
    /\ filtered_df' = filter_dataframe(df, continents, countries, age_groups,
                                       request_types, start_date, end_date)
    /\ UNCHANGED << df, criteriaVars, refiltered_df, current_page, nav_active >>
    /\ UNCHANGED << view_out, source_file, sessionVars >>

\* update_time_series (lines 675-685): the frame's timestamp column is
\* converted in place unless it is datetime64; when filter_dataframe failed
\* open, that frame is the store itself.
update_time_series ==
    /\ current_page = "home"
    /\ LET res == filter_dataframe(df, continents, countries, age_groups,
                                   request_types, start_date, end_date)
           converted == EnsureDatetime(res.frame)
       IN  /\ filtered_df' = [ res EXCEPT !.frame = converted ]
           /\ df' = IF res.is_arg THEN converted ELSE df
    /\ view' = "update_time_series"
    /\ UNCHANGED << criteriaVars, refiltered_df, current_page, nav_active >>
    /\ UNCHANGED << view_out, source_file, sessionVars >>

\* update_request_type_pie_detailed (lines 1425-1429): the request_types
\* criterion is replaced by [].
update_request_type_pie_detailed ==
    /\ current_page = "requests"
    /\ filtered_df' = filter_dataframe(df, continents, countries, age_groups,
                                       List({}), start_date, end_date)
    /\ view' = "update_request_type_pie_detailed"
    /\ UNCHANGED << df, criteriaVars, refiltered_df, current_page, nav_active >>
    /\ UNCHANGED << view_out, source_file, sessionVars >>

\* update_request_time_series (lines 1463-1467): the same call.
update_request_time_series ==
    /\ current_page = "requests"
    /\ filtered_df' = filter_dataframe(df, continents, countries, age_groups,
                                       List({}), start_date, end_date)
    /\ view' = "update_request_time_series"
    /\ UNCHANGED << df, criteriaVars, refiltered_df, current_page, nav_active >>
    /\ UNCHANGED << view_out, source_file, sessionVars >>

\* Mutant of update_request_country_heatmap: the request_types criterion is
\* passed on.
C30_HeatmapAppliesRequestTypes ==
    /\ current_page = "requests"
    /\ filtered_df' = filter_dataframe(df, continents, countries, age_groups,
                                       request_types, start_date, end_date)
    /\ view' = "update_request_country_heatmap"
    /\ UNCHANGED << df, criteriaVars, refiltered_df, current_page, nav_active >>
    /\ UNCHANGED << view_out, source_file, sessionVars >>

\* update_request_country_heatmap (lines 1508-1519): the same call.
update_request_country_heatmap ==
    /\ current_page = "requests"
    /\ filtered_df' = filter_dataframe(df, continents, countries, age_groups,
                                       List({}), start_date, end_date)
    /\ view' = "update_request_country_heatmap"
    /\ UNCHANGED << df, criteriaVars, refiltered_df, current_page, nav_active >>
    /\ UNCHANGED << view_out, source_file, sessionVars >>

\* export_data (lines 1568-1606): 'current' exports the table's rows, any
\* other option the result of filter_dataframe; the frame is only written out.
export_data ==
    /\ current_page = "data"
    /\ \E export_option \in { "current", "all" } :
          filtered_df' =
              IF export_option = "current" THEN NotCalled
              ELSE filter_dataframe(df, continents, countries, age_groups,
                                    request_types, start_date, end_date)
    /\ view' = "export_data"
    /\ UNCHANGED << df, criteriaVars, refiltered_df, current_page, nav_active >>
    /\ UNCHANGED << view_out, source_file, sessionVars >>

\* reset_filters (lines 978-985) after a click.
reset_filters ==
    /\ ResetCriteria
    /\ filtered_df' = NotCalled
    /\ view' = "reset_filters"
    /\ UNCHANGED << df, refiltered_df, current_page, nav_active >>
    /\ UNCHANGED << view_out, source_file, sessionVars >>

\* reset_filters fired without a click (n_clicks is None): dash.no_update six
\* times.
reset_filters_no_click ==
    /\ view' = "reset_filters_no_click"
    /\ UNCHANGED << df, criteriaVars, filtered_df, refiltered_df, current_page,
                    nav_active >>
    /\ UNCHANGED << view_out, source_file, sessionVars >>

\* Mutant of page_mapping: the entries of 'nav-map' and 'nav-time' are swapped.
C27_PageMappingSwapped ==
    [ b \in { "nav-home", "nav-map", "nav-time", "nav-requests", "nav-data" } |->
        CASE b = "nav-home" -> "home"
          [] b = "nav-map" -> "time"
          [] b = "nav-time" -> "map"
          [] b = "nav-requests" -> "requests"
          [] b = "nav-data" -> "data" ]

\* page_mapping of update_navigation (lines 1026-1032).
page_mapping ==
    [ b \in { "nav-home", "nav-map", "nav-time", "nav-requests", "nav-data" } |->
        CASE b = "nav-home" -> "home"
          [] b = "nav-map" -> "map"
          [] b = "nav-time" -> "time"
          [] b = "nav-requests" -> "requests"
          [] b = "nav-data" -> "data" ]

\* update_navigation (lines 1002-1034) triggered by a click on button_id;
\* render_content then replaces the page's views.
update_navigation ==
    /\ \E button_id \in DOMAIN page_mapping :
          /\ current_page' = page_mapping[button_id]
          /\ nav_active' = { button_id }
    /\ filtered_df' = NotCalled
    /\ view' = "none"
    /\ UNCHANGED << df, criteriaVars, refiltered_df >>
    /\ UNCHANGED << view_out, source_file, sessionVars >>

\* The dashboard layout is (re)loaded: its components take their layout values
\* and update_navigation runs untriggered (lines 1014-1017): 'current-page'
\* keeps its value, 'nav-home' is made the active button.
load_dashboard ==
    /\ ResetCriteria
    /\ current_page' = "home"
    /\ nav_active' = { "nav-home" }
    /\ filtered_df' = NotCalled
    /\ view' = "none"
    /\ UNCHANGED << df, refiltered_df >>
    /\ UNCHANGED << view_out, source_file, sessionVars >>

DashNext ==
    \/ ChangeFilter
    \/ UpdateReadOnlyView
    \/ update_time_series
    \/ update_request_type_pie_detailed
    \/ update_request_time_series
    \/ update_request_country_heatmap
    \/ export_data
    \/ reset_filters
    \/ reset_filters_no_click
    \/ update_navigation
    \/ load_dashboard

DashSpec == DashInit /\ [][DashNext]_vars

-----------------------------------------------------------------------------
(* Spec: the routing, registration, login and logout callbacks of one      *)
(* session (src/app.py:467-591).                                           *)

\* display_page (lines 472-482).
display_page(path) ==
    CASE path = "/login" \/ path = "/" -> "login_layout"
      [] path = "/register" -> "register_layout"
      [] path = "/dashboard" -> "dashboard_layout"
      [] OTHER -> "404 Page Not Found"

\* The paths a user enters in the address bar.
Paths == { "/", "/login", "/register", "/dashboard", "/reports" }

\* What is typed into the login form ("" is a field left empty).
LoginNames == { "admin", "Admin", "alice", "" }
LoginPasswords == { "password123", "Password123", "Secret1", "" }

\* What is typed into the registration form.
RegisterNames == { "alice", "admin", "" }
RegisterEmails == { "alice@example.com", "admin@example.com", "" }
RegisterPasswords == { "Secret1", "" }
RegisterConfirms == { "Secret1", "secret1" }

\* Mutant of CredentialsMatch: the password is not compared.
C10_MatchUsernameOnly(users, username, password) == username \in DOMAIN users

\* Line 570: username in USERS and USERS[username]['password'] == password.
CredentialsMatch(users, username, password) ==
    /\ username \in DOMAIN users
    /\ users[username].password = password

\* The browser's address bar is set to a path; display_page renders it.
Visit ==
    /\ \E path \in Paths :
          /\ pathname' = path
          /\ page_content' = display_page(path)
          /\ last_call' = Call("visit", path, "", "", "")
    /\ UNCHANGED << USERS, users_file, current_user, login_error, register_msg >>
    /\ UNCHANGED << dashVars, workers >>

\* navigate_to_register (lines 493-496), on a click of 'go-to-register'.
navigate_to_register ==
    /\ page_content = "login_layout"
    /\ pathname' = "/register"
    /\ page_content' = display_page("/register")
    /\ last_call' = Call("navigate_to_register", "", "", "", "")
    /\ UNCHANGED << USERS, users_file, current_user, login_error, register_msg >>
    /\ UNCHANGED << dashVars, workers >>

\* navigate_to_login (lines 504-507), on a click of 'go-to-login'.
navigate_to_login ==
    /\ page_content = "register_layout"
    /\ pathname' = "/login"
    /\ page_content' = display_page("/login")
    /\ last_call' = Call("navigate_to_login", "", "", "", "")
    /\ UNCHANGED << USERS, users_file, current_user, login_error, register_msg >>
    /\ UNCHANGED << dashVars, workers >>

\* Mutant of RegisterError: the e-mail is looked up before the user name.
C11_RegisterErrorEmailFirst(users, username, email, password, confirm_password) ==
    IF username = "" \/ email = "" \/ password = "" \/ confirm_password = ""
    THEN "All fields are required."
    ELSE IF password # confirm_password
    THEN "Passwords do not match."
    ELSE IF \E u \in DOMAIN users : users[u].email = email
    THEN "Email is already registered."
    ELSE IF username \in DOMAIN users
    THEN "Username is already taken."
    ELSE ""

\* Mutant of RegisterError: the user name is not looked up.
C14_RegisterErrorNoUsernameCheck(users, username, email, password, confirm_password) ==
    IF username = "" \/ email = "" \/ password = "" \/ confirm_password = ""
    THEN "All fields are required."
    ELSE IF password # confirm_password
    THEN "Passwords do not match."
    ELSE IF \E u \in DOMAIN users : users[u].email = email
    THEN "Email is already registered."
    ELSE ""

\* The validation of register_user (lines 524-537): the message of the first
\* check that fails, without the name or address the code quotes in it; ""
\* when all pass.
RegisterError(users, username, email, password, confirm_password) ==
    IF username = "" \/ email = "" \/ password = "" \/ confirm_password = ""
    THEN "All fields are required."
    ELSE IF password # confirm_password
    THEN "Passwords do not match."
    ELSE IF username \in DOMAIN users
    THEN "Username is already taken."
    ELSE IF \E u \in DOMAIN users : users[u].email = email
    THEN "Email is already registered."
    ELSE ""

\* USERS[username] = new_user (lines 540-548).
WithUser(users, username, password, email) ==
    [ u \in DOMAIN users \cup { username } |->
        IF u = username THEN Account(username, password, email) ELSE users[u] ]

\* Mutant of register_user: the new account is written before the e-mail of
\* the existing accounts is compared.
C12_RegisterWritesBeforeEmailCheck ==
    /\ page_content = "register_layout"
    /\ \E username \in RegisterNames, email \in RegisterEmails,
          password \in RegisterPasswords, confirm_password \in RegisterConfirms :
          LET err == RegisterError(USERS, username, email, password, confirm_password) IN
          /\ last_call' = Call("register_user", username, password, email, confirm_password)
          /\ \/ /\ err \in { "All fields are required.", "Passwords do not match.",
                             "Username is already taken." }
                /\ register_msg' = [ error |-> err, success |-> "" ]
                /\ UNCHANGED << USERS, users_file, pathname, page_content >>
             \/ /\ err = "Email is already registered."
                /\ USERS' = WithUser(USERS, username, password, email)
                /\ register_msg' = [ error |-> err, success |-> "" ]
                /\ UNCHANGED << users_file, pathname, page_content >>
             \/ /\ err = ""
                /\ USERS' = WithUser(USERS, username, password, email)
                /\ users_file' = PickleOf(USERS')
                /\ register_msg' =
                      [ error |-> "",
                        success |-> "Registration successful! You can now log in." ]
                /\ pathname' = "/login"
                /\ page_content' = display_page("/login")
    /\ UNCHANGED << current_user, login_error >>
    /\ UNCHANGED << dashVars, workers >>

\* register_user (lines 521-557), on a click of 'register-button'.  save_users
\* writes the whole mapping; when it fails, the file is as it was (open
\* failed) or truncated (the dump failed).
register_user ==
    /\ page_content = "register_layout"
    /\ \E username \in RegisterNames, email \in RegisterEmails,
          password \in RegisterPasswords, confirm_password \in RegisterConfirms :
          LET err == RegisterError(USERS, username, email, password, confirm_password) IN
          /\ last_call' = Call("register_user", username, password, email, confirm_password)
          /\ \/ /\ err # ""
                /\ register_msg' = [ error |-> err, success |-> "" ]
                /\ UNCHANGED << USERS, users_file, pathname, page_content >>
             \/ /\ err = ""
                /\ USERS' = WithUser(USERS, username, password, email)
                /\ \/ /\ users_file' = PickleOf(USERS')
                      /\ register_msg' =
                            [ error |-> "",
                              success |-> "Registration successful! You can now log in." ]
                      /\ pathname' = "/login"
                      /\ page_content' = display_page("/login")
                   \/ /\ users_file' \in { users_file, CorruptFile }
                      /\ register_msg' =
                            [ error |-> "Error saving user data. Please try again.",
                              success |-> "" ]
                      /\ UNCHANGED << pathname, page_content >>
    /\ UNCHANGED << current_user, login_error >>
    /\ UNCHANGED << dashVars, workers >>

\* login (lines 568-578), on a click of 'login-button'.
login ==
    /\ page_content = "login_layout"
    /\ \E username \in LoginNames, password \in LoginPasswords :
          /\ last_call' = Call("login", username, password, "", "")
          /\ IF CredentialsMatch(USERS, username, password)
             THEN /\ current_user' = USERS[username].id
                  /\ pathname' = "/dashboard"
                  /\ login_error' = ""
             ELSE /\ pathname' = "/login"
                  /\ login_error' = "Invalid username or password"
                  /\ UNCHANGED current_user
          /\ page_content' = display_page(pathname')
    /\ UNCHANGED << USERS, users_file, register_msg >>
    /\ UNCHANGED << dashVars, workers >>

\* Mutant of logout: the route is set, logout_user() is not called.
C25_LogoutKeepsUser ==
    /\ page_content = "dashboard_layout"
    /\ pathname' = "/login"
    /\ page_content' = display_page("/login")
    /\ last_call' = Call("logout", "", "", "", "")
    /\ UNCHANGED << USERS, users_file, current_user, login_error, register_msg >>
    /\ UNCHANGED << dashVars, workers >>

\* logout (lines 586-591), on a click of 'logout-button'.
logout ==
    /\ page_content = "dashboard_layout"
    /\ current_user' = NoUser
    /\ pathname' = "/login"
    /\ page_content' = display_page("/login")
    /\ last_call' = Call("logout", "", "", "", "")
    /\ UNCHANGED << USERS, users_file, login_error, register_msg >>
    /\ UNCHANGED << dashVars, workers >>

\* logout fired when 'logout-button' is inserted with the dashboard layout:
\* n_clicks is None and the callback returns dash.no_update (line 591).
logout_no_click ==
    /\ page_content = "dashboard_layout"
    /\ last_call' = Call("logout_no_click", "", "", "", "")
    /\ UNCHANGED << USERS, users_file, pathname, current_user, page_content,
                    login_error, register_msg >>
    /\ UNCHANGED << dashVars, workers >>

\* The dashboard components of the session specification: as laid out, idle.
DashIdle ==
    /\ df = Frame(<< >>, LoadedTsDtype)
    /\ LayoutCriteria
    /\ filtered_df = NotCalled
    /\ refiltered_df = NotCalled
    /\ view = "none"
    /\ view_out = NoOutput
    /\ source_file = SourceRead
    /\ NavInit

Init == SessionInit /\ DashIdle

Next ==
    \/ Visit
    \/ navigate_to_register
    \/ navigate_to_login
    \/ register_user
    \/ login
    \/ logout
    \/ logout_no_click

Spec == Init /\ [][Next]_vars

-----------------------------------------------------------------------------
(* RaceSpec: two register_user calls served at once by the threads of the  *)
(* development server (app.run, line 1609).  Nothing in lines 521-557 or   *)
(* in save_users holds a lock, so the threads interleave between the       *)
(* validation (lines 524-537), the write (line 548) and the save (line     *)
(* 551).                                                                   *)

Threads == { 1, 2 }

\* What the two registration forms hold.
RaceNames == { "alice", "bob" }
RaceEmails == { "alice@example.com", "bob@example.com" }
RacePasswords == { "Secret1" }

\* A register_user call on a thread: its form values, the statement it has
\* reached and, once it has returned, its outputs.
Worker(pc, username, email, password, result) ==
    [ pc |-> pc, username |-> username, email |-> email, password |-> password,
      result |-> result ]

RaceInit ==
    /\ users_file \in { NoFile, CorruptFile } \cup { PickleOf(m) : m \in PersistedUsers }
    /\ USERS = load_users(users_file)
    /\ pathname = "/register"
    /\ current_user = NoUser
    /\ page_content = display_page("/register")
    /\ login_error = ""
    /\ register_msg = NoMsg
    /\ last_call = NoCall
    /\ workers \in [ Threads ->
                      { Worker("validate", u, e, p, NoMsg) :
                          u \in RaceNames, e \in RaceEmails, p \in RacePasswords } ]
    /\ DashIdle

\* A worker moves on; the session of the model and the dashboard are idle.
WorkerStep(t, w) ==
    /\ workers' = [ workers EXCEPT ![t] = w ]
    /\ UNCHANGED << pathname, current_user, page_content, login_error,
                    register_msg, last_call >>
    /\ UNCHANGED dashVars

\* Lines 524-537 on thread t: the checks against the mapping as it is now.
register_validate(t) ==
    LET w == workers[t]
        err == RegisterError(USERS, w.username, w.email, w.password, w.password)
    IN  /\ w.pc = "validate"
        /\ IF err # ""
           THEN WorkerStep(t, [ w EXCEPT !.pc = "done",
                                         !.result = [ error |-> err, success |-> "" ] ])
           ELSE WorkerStep(t, [ w EXCEPT !.pc = "write" ])
        /\ UNCHANGED << USERS, users_file >>

\* Line 548 on thread t: USERS[username] = new_user.
register_write(t) ==
    LET w == workers[t] IN
    /\ w.pc = "write"
    /\ USERS' = WithUser(USERS, w.username, w.password, w.email)
    /\ WorkerStep(t, [ w EXCEPT !.pc = "save" ])
    /\ UNCHANGED users_file

\* Lines 551-555 on thread t: save_users(USERS) and the outputs.
register_save(t) ==
    LET w == workers[t] IN
    /\ w.pc = "save"
    /\ \/ /\ users_file' = PickleOf(USERS)
          /\ WorkerStep(t, [ w EXCEPT !.pc = "done",
                                      !.result =
                                         [ error |-> "",
                                           success |-> "Registration successful! You can now log in." ] ])
       \/ /\ users_file' \in { users_file, CorruptFile }
          /\ WorkerStep(t, [ w EXCEPT !.pc = "done",
                                      !.result =
                                         [ error |-> "Error saving user data. Please try again.",
                                           success |-> "" ] ])
    /\ UNCHANGED USERS

RaceNext ==
    \E t \in Threads :
       \/ register_validate(t)
       \/ register_write(t)
       \/ register_save(t)

RaceSpec == RaceInit /\ [][RaceNext]_vars

-----------------------------------------------------------------------------
(* ViewSpec: the view callbacks of the home and time pages, each applied   *)
(* to stores and criteria of bounded sets.  The columns hour, day and      *)
(* month of a record are the ones load_data derives from its timestamp     *)
(* (lines 166-177).                                                        *)

\* A missing value (NaN) of a text column.
NaN == "<NaN>"

\* Series.dt.day_name(): 2023-01-01 is a Sunday.
day_order ==
    << "Monday", "Tuesday", "Wednesday", "Thursday", "Friday", "Saturday", "Sunday" >>
DayName(ts) == IF ts = NaT THEN NaN ELSE day_order[((DtDate(ts) + 6) % 7) + 1]

\* Series.dt.month_name().
month_order ==
    << "January", "February", "March", "April", "May", "June", "July",
       "August", "September", "October", "November", "December" >>
MonthName(ts) == IF ts = NaT THEN NaN ELSE month_order[MonthOf(DtDate(ts))]

age_order == << "18-24", "25-34", "35-44", "45-54", "55-64", "65+" >>

\* The bound on the rows of a store of ViewSpec.
ViewMaxLen == 2

\* The timestamps of the rows of ViewSpec: Sunday 2023-01-01 23:00, Wednesday
\* 2023-02-01 00:00, and an unparseable source value.
FebruaryFirst == DaysBeforeMonth(2)
ViewTimes == { HoursPerDay - 1, FebruaryFirst * HoursPerDay, NaT }

\* (country, continent, age_group, request_type) of the rows of ViewSpec; the
\* last one has an empty request_type cell in the source file.
ViewProfiles ==
    { << "France", "Europe", "65+", "demo" >>,
      << "Canada", "North America", "18-24", "job" >>,
      << "Unknown", "Unknown", "Unknown", NaN >> }

ViewRow(i, ts, profile) ==
    [ idx          |-> i,
      timestamp    |-> ts,
      country      |-> profile[1],
      continent    |-> profile[2],
      age_group    |-> profile[3],
      request_type |-> profile[4] ]

ViewStores ==
    { Frame([ i \in DOMAIN f |-> ViewRow(i - 1, f[i][1], f[i][2]) ], LoadedTsDtype) :
        f \in UNION { [ 1..k -> ViewTimes \X ViewProfiles ] : k \in 0..ViewMaxLen } }

\* The value of a column of a record.
Cell(r, column) ==
    CASE column = "hour" -> DtHour(r.timestamp)
      [] column = "day" -> DayName(r.timestamp)
      [] column = "month" -> MonthName(r.timestamp)
      [] OTHER -> r[column]

\* The missing value of a column: NaN, which the model writes NaT in the
\* numeric column hour.
Missing(column) == IF column = "hour" THEN NaT ELSE NaN

\* len(df[df[column] == value]); a missing value equals nothing.
CountEq(rows, column, value) ==
    IF value = Missing(column) THEN 0
    ELSE Len(SelectSeq(rows, LAMBDA r : Cell(r, column) = value))

Range(seq) == { seq[i] : i \in DOMAIN seq }

\* Three decimal digits, zero-padded.
Pad3(n) ==
    IF n < 10 THEN "00" \o ToString(n)
    ELSE IF n < 100 THEN "0" \o ToString(n) ELSE ToString(n)

\* f"{n:,}".
RECURSIVE FormatThousands(_)
FormatThousands(n) ==
    IF n < 1000 THEN ToString(n)
    ELSE FormatThousands(n \div 1000) \o "," \o Pad3(n % 1000)

\* Mutant of total_requests: the records without a request_type are left out.
C15_TotalOfTypedRecords(rows) ==
    Len(SelectSeq(rows, LAMBDA r : r.request_type # NaN))

\* Line 652: len(filtered_df).
total_requests(rows) == Len(rows)

\* An exception leaving the body of a callback.
Raised(exception) == [ kind |-> "raised", exception |-> exception ]

\* The body of update_metrics (lines 650-662).
metrics_body(rows) ==
    [ kind         |-> "metrics",
      total        |-> FormatThousands(total_requests(rows)),
      demo         |-> FormatThousands(CountEq(rows, "request_type", "demo")),
      job          |-> FormatThousands(CountEq(rows, "request_type", "job")),
      ai_assistant |-> FormatThousands(CountEq(rows, "request_type", "ai_assistant")) ]

\* Series.value_counts(): the count of each value present, missing values
\* dropped.
value_counts(rows, column) ==
    [ v \in { Cell(rows[i], column) : i \in DOMAIN rows } \ { NaN } |->
        CountEq(rows, column, v) ]

RECURSIVE SumOver(_, _)
SumOver(f, S) ==
    IF S = {} THEN 0
    ELSE LET x == CHOOSE y \in S : TRUE IN f[x] + SumOver(f, S \ { x })

\* The body of update_request_type_pie (lines 739-780): the figure of the
\* value counts.
request_type_pie_body(rows) ==
    [ kind |-> "figure", data |-> value_counts(rows, "request_type") ]

\* The rows (label, count) whose value is a category of the order, in the
\* order of the categories.
RECURSIVE CategoryRows(_, _, _)
CategoryRows(counts, order, k) ==
    IF k > Len(order) THEN << >>
    ELSE (IF order[k] \in DOMAIN counts
          THEN << << order[k], counts[order[k]] >> >> ELSE << >>)
         \o CategoryRows(counts, order, k + 1)

\* The rows whose value is no category of the order: pd.Categorical turns
\* their label into a missing value and sort_values puts them last, in the
\* order value_counts gave them (largest count first).
RECURSIVE UncategorisedRows(_, _)
UncategorisedRows(counts, S) ==
    IF S = {} THEN << >>
    ELSE LET v == CHOOSE x \in S : \A y \in S : counts[y] <= counts[x]
         IN  << << NaN, counts[v] >> >> \o UncategorisedRows(counts, S \ { v })

\* pd.Categorical(..., categories=order, ordered=True), then sort_values.
SortByCategory(counts, order) ==
    CategoryRows(counts, order, 1)
       \o UncategorisedRows(counts, DOMAIN counts \ Range(order))

\* The bodies of update_age_group_chart (lines 860-900), update_daily_chart
\* (lines 1337-1368) and update_monthly_chart (lines 1382-1413).
age_group_chart_body(rows) ==
    [ kind |-> "figure", data |-> SortByCategory(value_counts(rows, "age_group"), age_order) ]
daily_chart_body(rows) ==
    [ kind |-> "figure", data |-> SortByCategory(value_counts(rows, "day"), day_order) ]
monthly_chart_body(rows) ==
    [ kind |-> "figure", data |-> SortByCategory(value_counts(rows, "month"), month_order) ]

\* Series.unique(): the values in order of first appearance, a missing value
\* included (once).
RECURSIVE UniqueUpTo(_, _, _)
UniqueUpTo(rows, column, n) ==
    IF n = 0 THEN << >>
    ELSE LET seen == UniqueUpTo(rows, column, n - 1)
             v == Cell(rows[n], column)
         IN  IF v \in Range(seen) THEN seen ELSE Append(seen, v)
unique(rows, column) == UniqueUpTo(rows, column, Len(rows))

\* The integers of a set, ascending.
RECURSIVE Ascending(_)
Ascending(S) ==
    IF S = {} THEN << >>
    ELSE LET m == CHOOSE x \in S : \A y \in S : x <= y
         IN  << m >> \o Ascending(S \ { m })

\* req_df.groupby('hour').size().reset_index(name='count') (line 923): one row
\* (hour, count) per hour present, ascending; records without an hour are in
\* no group.
hourly_counts(req_rows) ==
    LET hours == Ascending({ DtHour(req_rows[i].timestamp) : i \in DOMAIN req_rows } \ { NaT })
    IN  [ k \in DOMAIN hours |-> << hours[k], CountEq(req_rows, "hour", hours[k]) >> ]

RECURSIVE SumCounts(_, _)
SumCounts(buckets, k) == IF k = 0 THEN 0 ELSE buckets[k][2] + SumCounts(buckets, k - 1)
RECURSIVE SumSquares(_, _)
SumSquares(buckets, k) ==
    IF k = 0 THEN 0 ELSE buckets[k][2] * buckets[k][2] + SumSquares(buckets, k - 1)

\* f"{x:.2f}" of the number hundredths / 100; 'nan' for a missing number.
Format2f(hundredths) ==
    IF hundredths = NaT THEN "nan"
    ELSE ToString(hundredths \div 100) \o "."
            \o ToString((hundredths % 100) \div 10) \o ToString(hundredths % 10)

\* The fraction num / den in hundredths, rounded to the nearest.
RoundedHundredths(num, den) == (200 * num + den) \div (2 * den)

\* Series.mean() of the bucket counts (line 926), in hundredths; missing for
\* no bucket.
Mean(buckets) ==
    IF Len(buckets) = 0 THEN NaT
    ELSE RoundedHundredths(SumCounts(buckets, Len(buckets)), Len(buckets))

\* The largest root that the model's bucket counts can give, in hundredths.
MaxStd == 100 * (ViewMaxLen + 2)

\* Mutant of Std: the deviation of fewer than two buckets is filled with zero.
C19_StdZeroFilled(buckets) ==
    LET n == Len(buckets)
        num == n * SumSquares(buckets, n) - SumCounts(buckets, n) * SumCounts(buckets, n)
        den == n * (n - 1)
    IN  IF n < 2 THEN 0
        ELSE CHOOSE k \in 0..MaxStd :
                /\ k = 0 \/ (2 * k - 1) * (2 * k - 1) * den <= 40000 * num
                /\ 40000 * num < (2 * k + 1) * (2 * k + 1) * den

\* Series.std() of the bucket counts (line 927, ddof = 1), in hundredths:
\* the root of (n * sum(c^2) - sum(c)^2) / (n * (n - 1)), rounded; missing for
\* fewer than two buckets.
Std(buckets) ==
    LET n == Len(buckets)
        num == n * SumSquares(buckets, n) - SumCounts(buckets, n) * SumCounts(buckets, n)
        den == n * (n - 1)
    IN  IF n < 2 THEN NaT
        ELSE CHOOSE k \in 0..MaxStd :
                /\ k = 0 \/ (2 * k - 1) * (2 * k - 1) * den <= 40000 * num
                /\ 40000 * num < (2 * k + 1) * (2 * k + 1) * den

\* Series.idxmax() on the counts (line 930): the first row with the largest
\* count.
IdxMax(buckets) ==
    CHOOSE k \in DOMAIN buckets :
       /\ \A j \in DOMAIN buckets : buckets[j][2] <= buckets[k][2]
       /\ \A j \in 1..(k - 1) : buckets[j][2] < buckets[k][2]

\* df[df['request_type'] == req_type] (line 920).
RowsOfType(rows, req_type) ==
    IF req_type = NaN THEN << >>
    ELSE SelectSeq(rows, LAMBDA r : r.request_type = req_type)

\* One pass of the loop of lines 919-938; idxmax raises on no bucket.  The
\* 'Peak Hour' cell is the hour followed by ':00'.
StatsRow(rows, req_type) ==
    LET req_df == RowsOfType(rows, req_type)
        buckets == hourly_counts(req_df)
    IN  IF Len(buckets) = 0 THEN Raised("ValueError")
        ELSE [ kind |-> "row",
               request_type |-> req_type,
               total |-> Len(req_df),
               mean |-> Format2f(Mean(buckets)),
               std |-> Format2f(Std(buckets)),
               peak_hour |-> buckets[IdxMax(buckets)][1] ]

\* The body of update_statistics_table (lines 915-966).
statistics_table_body(rows) ==
    LET types == unique(rows, "request_type")
        stats == [ k \in DOMAIN types |-> StatsRow(rows, types[k]) ]
    IN  IF \E k \in DOMAIN stats : stats[k].kind = "raised"
        THEN Raised("ValueError")
        ELSE IF Len(stats) > 0
        THEN [ kind |-> "table", rows |-> stats ]
        ELSE [ kind |-> "div", text |-> "No data available for the selected filters." ]

\* The body of update_data_table (lines 1549-1550): head(100) as records.
data_table_body(rows) ==
    [ kind |-> "records",
      rows |-> SubSeq(rows, 1, IF Len(rows) < 100 THEN Len(rows) ELSE 100) ]

\* Mutant of handle_error: the exception is printed and raised again.
C20_HandleErrorReraises(name, result) == result

\* handle_error (lines 20-36) around the callback called name.
handle_error(name, result) ==
    IF result.kind # "raised" THEN result
    ELSE IF name \in { "update_metrics" }
    THEN [ kind |-> "metrics", total |-> "0", demo |-> "0", job |-> "0",
           ai_assistant |-> "0" ]
    ELSE IF name \in { "update_time_series", "update_request_type_pie",
                       "update_country_bar_chart", "update_age_group_chart" }
    THEN [ kind |-> "empty_figure" ]
    ELSE IF name = "update_statistics_table"
    THEN [ kind |-> "div",
           text |-> "Error loading statistics. Please check the console for details." ]
    ELSE [ kind |-> "no_update" ]

\* The criteria of ViewSpec: the layout's, or a selection of request types, or
\* an end date that is no date.
ViewInit ==
    /\ df \in ViewStores
    /\ continents = List({})
    /\ countries = List({})
    /\ age_groups = List({})
    /\ request_types \in { List({}), List({"job"}) }
    /\ start_date = min_date(df)
    /\ end_date \in { max_date(df), BadDateStr }
    /\ filtered_df = NotCalled
    /\ refiltered_df = NotCalled
    /\ view = "none"
    /\ view_out = NoOutput
    /\ source_file = SourceRead
    /\ current_page = "home"
    /\ nav_active = { "nav-home" }
    /\ SessionOnDashboard

\* The first statement of every view callback: filter_dataframe on the store
\* and the criteria of the components.
RunFilter ==
    /\ filtered_df' = filter_dataframe(df, continents, countries, age_groups,
                                       request_types, start_date, end_date)
    /\ UNCHANGED << df, criteriaVars, refiltered_df, current_page, nav_active >>
    /\ UNCHANGED << source_file, sessionVars >>

\* The rows a view callback gets from filter_dataframe.
Filtered ==
    filter_dataframe(df, continents, countries, age_groups, request_types,
                     start_date, end_date).frame.rows

update_metrics ==
    /\ view' = "update_metrics"
    /\ view_out' = handle_error("update_metrics", metrics_body(Filtered))
    /\ RunFilter

update_request_type_pie ==
    /\ view' = "update_request_type_pie"
    /\ view_out' = handle_error("update_request_type_pie", request_type_pie_body(Filtered))
    /\ RunFilter

update_age_group_chart ==
    /\ view' = "update_age_group_chart"
    /\ view_out' = handle_error("update_age_group_chart", age_group_chart_body(Filtered))
    /\ RunFilter

update_daily_chart ==
    /\ view' = "update_daily_chart"
    /\ view_out' = handle_error("update_daily_chart", daily_chart_body(Filtered))
    /\ RunFilter

update_monthly_chart ==
    /\ view' = "update_monthly_chart"
    /\ view_out' = handle_error("update_monthly_chart", monthly_chart_body(Filtered))
    /\ RunFilter

update_statistics_table ==
    /\ view' = "update_statistics_table"
    /\ view_out' = handle_error("update_statistics_table", statistics_table_body(Filtered))
    /\ RunFilter

\* update_data_table is not wrapped by handle_error (lines 1539-1550).
update_data_table ==
    /\ view' = "update_data_table"
    /\ view_out' = data_table_body(Filtered)
    /\ RunFilter

ViewNext ==
    \/ update_metrics
    \/ update_request_type_pie
    \/ update_age_group_chart
    \/ update_daily_chart
    \/ update_monthly_chart
    \/ update_statistics_table
    \/ update_data_table

ViewSpec == ViewInit /\ [][ViewNext]_vars

-----------------------------------------------------------------------------
(* LoadSpec: load_data (lines 129-203) on the source files of a bounded    *)
(* set.                                                                    *)

\* Lines 98-123.
country_to_continent ==
    [ c \in { "United States", "Canada", "Mexico" } |-> "North America" ]
    @@ [ c \in { "Brazil", "Argentina", "Chile", "Colombia", "Peru" } |-> "South America" ]
    @@ [ c \in { "United Kingdom", "France", "Germany", "Italy", "Spain", "Russia" } |-> "Europe" ]
    @@ [ c \in { "China", "Japan", "India", "South Korea" } |-> "Asia" ]
    @@ [ c \in { "Australia", "New Zealand" } |-> "Oceania" ]
    @@ [ c \in { "Egypt", "South Africa", "Nigeria", "Kenya" } |-> "Africa" ]

\* Line 126.
default_continent == "Unknown"

\* The bound on the records of a source file.
LoadMaxLen == 2

\* The rows of the placeholder frame (line 192).
PlaceholderLen == 10

\* A cell of the time column that is no date.
Unparseable == -2

\* The cells of the time column: 2023-01-01 05:00, or text that is no date.
SourceTimes == { 5, Unparseable }

\* (country, continent, age_group, request_type) as the file's records state
\* them.
SourceProfiles ==
    { << "France", "Europe", "25-34", "demo" >>,
      << "Atlantis", "Asia", "65+", "job" >> }

SourceRecord(time, profile) ==
    [ time |-> time, country |-> profile[1], continent |-> profile[2],
      age_group |-> profile[3], request_type |-> profile[4] ]

required_columns == { "country", "request_type", "age_group", "continent" }

\* The file: absent, unreadable as CSV, readable with a step of the
\* processing raising (faulty), or readable.  time_column is 'timestamp', one
\* of the names of line 142, or 'none'; columns are the required columns the
\* header has; the cells of the other columns are of no consequence.
SourceFile(state, time_column, columns, records) ==
    [ state |-> state, time_column |-> time_column, columns |-> columns,
      records |-> records ]

SourceFiles ==
    { SourceFile(st, "none", {}, << >>) : st \in { "missing", "unreadable" } }
    \cup
    { SourceFile(st, tc, cols, recs) :
        st \in { "ok", "faulty" },
        tc \in { "timestamp", "log_time", "none" },
        cols \in SUBSET required_columns,
        recs \in UNION { [ 1..k -> { SourceRecord(t, pr) : t \in SourceTimes,
                                                         pr \in SourceProfiles } ] :
                         k \in 0..LoadMaxLen } }

\* Mutant of to_datetime: text that is no date becomes the epoch.
C22_CoerceToEpoch(cell) == IF cell = Unparseable THEN 0 ELSE cell

\* pd.to_datetime(..., errors='coerce') of a cell (line 163).
to_datetime(cell) == IF cell = Unparseable THEN NaT ELSE cell

\* The frame of the except branch (lines 191-201): ten days from 2023-01-01.
Placeholder ==
    Frame([ i \in 1..PlaceholderLen |->
              [ idx          |-> i - 1,
                timestamp    |-> (i - 1) * HoursPerDay,
                country      |-> "Unknown",
                continent    |-> "Unknown",
                age_group    |-> "Unknown",
                request_type |-> "Unknown" ] ],
          "datetime64")

\* A required column of record r: the file's, or 'Unknown' when the header
\* lacks it (lines 179-184).
ColumnOrUnknown(file, r, column) ==
    IF column \in file.columns THEN r[column] ELSE "Unknown"

\* load_data (lines 129-203).
load_data(file) ==
    IF file.state # "ok" THEN Placeholder
    ELSE Frame([ i \in DOMAIN file.records |->
                   [ idx          |-> i - 1,
                     timestamp    |-> IF file.time_column = "none" THEN i - 1
                                      ELSE to_datetime(file.records[i].time),
                     country      |-> ColumnOrUnknown(file, file.records[i], "country"),
                     continent    |-> ColumnOrUnknown(file, file.records[i], "continent"),
                     age_group    |-> ColumnOrUnknown(file, file.records[i], "age_group"),
                     request_type |-> ColumnOrUnknown(file, file.records[i], "request_type") ] ],
               LoadedTsDtype)

\* The store before line 206 has run.
Unloaded == Frame(<< >>, "unloaded")

LoadInit ==
    /\ source_file \in SourceFiles
    /\ df = Unloaded
    /\ continents = List({})
    /\ countries = List({})
    /\ age_groups = List({})
    /\ request_types = List({})
    /\ start_date = NoDate
    /\ end_date = NoDate
    /\ filtered_df = NotCalled
    /\ refiltered_df = NotCalled
    /\ view = "none"
    /\ view_out = NoOutput
    /\ NavInit
    /\ SessionIdle

\* Line 206: df = load_data().
CallLoadData ==
    /\ df = Unloaded
    /\ df' = load_data(source_file)
    /\ UNCHANGED << criteriaVars, filtered_df, refiltered_df, view, view_out,
                    current_page, nav_active, source_file >>
    /\ UNCHANGED sessionVars

LoadNext == CallLoadData

LoadSpec == LoadInit /\ [][LoadNext]_vars

-----------------------------------------------------------------------------
(* Claims about filter_dataframe, checked under FilterSpec.                *)

\* The records of a sequence of rows.
RowSet(rows) == { rows[i] : i \in DOMAIN rows }

\* The criteria of the state are well formed: dropdown values are lists or
\* None, date bounds are strings that parse.
WellFormedSets ==
    \A c \in { continents, countries, age_groups, request_types } :
        c.kind \in { "list", "none" }

ValidBounds == start_date \in ValidDateStrs /\ end_date \in ValidDateStrs

\* The day of January 2023 a valid bound names, as days since 2023-01-01.
DayOf(b) == b.ymd[3] - 1

\* A criterion set accepts a value: it is empty, or holds the value.
Accepts(c, v) == c.items = {} \/ v \in c.items

\* The date of the record's timestamp lies in [start_date, end_date].
InDateRange(r) ==
    /\ r.timestamp # NaT
    /\ DayOf(start_date) <= r.timestamp \div HoursPerDay
    /\ r.timestamp \div HoursPerDay <= DayOf(end_date)

\* C1: with valid date bounds, a record of the store is in the output iff its
\* date lies in [start_date, end_date] and each of the four criterion sets is
\* empty or holds the record's value of that field.
C1_Membership ==
    (filtered_df.called /\ ValidBounds /\ WellFormedSets) =>
        \A i \in DOMAIN df.rows :
            LET r == df.rows[i] IN
            (r \in RowSet(filtered_df.frame.rows)) <=>
                /\ InDateRange(r)
                /\ Accepts(continents, r.continent)
                /\ Accepts(countries, r.country)
                /\ Accepts(age_groups, r.age_group)
                /\ Accepts(request_types, r.request_type)

\* C1 witness: two non-empty criterion sets and valid bounds select one record
\* of the store and reject another.
C1_Witness ==
    /\ filtered_df.called /\ ValidBounds /\ WellFormedSets
    /\ countries.items # {} /\ request_types.items # {}
    /\ Len(filtered_df.frame.rows) = 1
    /\ Len(df.rows) = 2
    /\ \A i \in DOMAIN df.rows : InDateRange(df.rows[i])

\* rows is a subsequence of base: its index labels strictly increase and
\* every one of its records is the record of base with that label.
IsSubsequence(rows, base) ==
    /\ \A i \in DOMAIN rows : \E j \in DOMAIN base : rows[i] = base[j]
    /\ \A i, j \in DOMAIN rows : i < j => rows[i].idx < rows[j].idx

\* C2: for all criteria, malformed ones included, the output is a subsequence
\* of the input: only input records, none repeated, original relative order.
C2_Subsequence ==
    filtered_df.called => IsSubsequence(filtered_df.frame.rows, df.rows)

\* C2 witness: a call that keeps two records, and one that failed open.
C2_Witness ==
    /\ filtered_df.called
    /\ Len(filtered_df.frame.rows) = 2
    /\ ~filtered_df.raised
    /\ request_types.items # {}
\* The date range is [minimum record date, maximum record date] of the store
\* and the four criterion sets are empty.
FullSpanCriteria ==
    /\ Instants(df.rows) # {}
    /\ \A c \in { continents, countries, age_groups, request_types } :
          c.kind \in { "list", "none" } /\ c.items = {}
    /\ \E lo, hi \in Instants(df.rows) :
          /\ \A t \in Instants(df.rows) : lo <= t /\ t <= hi
          /\ start_date = IsoFormat(lo \div HoursPerDay)
          /\ end_date = IsoFormat(hi \div HoursPerDay)

\* C3 as stated: with empty criterion sets and the date range spanning the
\* store, filter_dataframe returns the full store.
C3_IdentityAsStated ==
    (filtered_df.called /\ FullSpanCriteria) => filtered_df.frame.rows = df.rows

\* C3 amended: with empty criterion sets and the date range spanning the
\* store, filter_dataframe returns, in store order, exactly the records whose
\* timestamp is not null (the full store when no timestamp is null).
C3_IdentityOnNonNull ==
    (filtered_df.called /\ FullSpanCriteria) =>
        /\ filtered_df.frame.rows = SelectSeq(df.rows, LAMBDA r : r.timestamp # NaT)
        /\ (NaT \notin { df.rows[i].timestamp : i \in DOMAIN df.rows }
              => filtered_df.frame.rows = df.rows)

\* C3 witness: a full-span call on a store of two records on different days,
\* both returned.
C3_Witness ==
    /\ filtered_df.called /\ FullSpanCriteria
    /\ start_date # end_date
    /\ Len(df.rows) = 2
    /\ filtered_df.frame.rows = df.rows

\* C4: the date predicate is the closed interval [start_date, end_date]
\* compared at date granularity: with no other criterion, the output is
\* exactly the records whose date lies in it, whatever their time of day.
C4_ClosedDateInterval ==
    (/\ filtered_df.called /\ ValidBounds
     /\ \A c \in { continents, countries, age_groups, request_types } : ~Truthy(c))
    => filtered_df.frame.rows = SelectSeq(df.rows, InDateRange)

\* C4 witness: the range ends on 2023-01-01; the record of 23:00 that day is
\* returned, the record of 00:00 the next day is not.
C4_Witness ==
    /\ filtered_df.called /\ ValidBounds
    /\ \A c \in { continents, countries, age_groups, request_types } : ~Truthy(c)
    /\ DayOf(start_date) = 0 /\ DayOf(end_date) = 0
    /\ Len(df.rows) = 2
    /\ df.rows[1].timestamp = HoursPerDay - 1
    /\ df.rows[2].timestamp = HoursPerDay
    /\ filtered_df.frame.rows = << df.rows[1] >>

\* C5: filtering the result of filter_dataframe again by the same criteria
\* gives the same records in the same order.
C5_Idempotent ==
    refiltered_df.called => refiltered_df.frame.rows = filtered_df.frame.rows

\* C5 witness: the second call has run on a result that dropped one of two
\* records.
C5_Witness ==
    /\ refiltered_df.called
    /\ ~filtered_df.raised
    /\ Len(df.rows) = 2
    /\ Len(filtered_df.frame.rows) = 1
    /\ Len(refiltered_df.frame.rows) = 1

\* The criteria make a step of filter_dataframe raise: a bound that is a
\* string but no date, a bound of another type compared with a date, or a
\* dropdown value that is not list-like.
MalformedCriteria ==
    \/ start_date = BadDateStr
    \/ end_date = BadDateStr
    \/ (NumberDate \in { start_date, end_date } /\ Instants(df.rows) # {})
    \/ BareString \in { continents, countries, age_groups, request_types }

\* C6: when a step of filtering raises, filter_dataframe returns the input
\* itself, complete and unmodified: no record dropped, no predicate applied.
C6_FailOpen ==
    (filtered_df.called /\ (filtered_df.raised \/ MalformedCriteria)) =>
        /\ filtered_df.raised
        /\ filtered_df.frame = df
        /\ filtered_df.is_arg

\* C6 witness: a malformed continent value with a date range that excludes a
\* record of the store; both records come back.
C6_Witness ==
    /\ filtered_df.called /\ filtered_df.raised
    /\ continents = BareString
    /\ ValidBounds
    /\ Len(df.rows) = 2
    /\ \E i \in DOMAIN df.rows : df.rows[i].timestamp # NaT /\ ~InDateRange(df.rows[i])
    /\ Len(filtered_df.frame.rows) = 2

\* The store's minimum and maximum record dates, as the browser would send them.
StoreMinDate ==
    IsoFormat((CHOOSE t \in Instants(df.rows) : \A u \in Instants(df.rows) : t <= u)
                  \div HoursPerDay)

StoreMaxDate ==
    IsoFormat((CHOOSE t \in Instants(df.rows) : \A u \in Instants(df.rows) : u <= t)
                  \div HoursPerDay)

\* C7 as stated: a bound that fails to parse is treated as the store's extreme:
\* the result is that of filtering with the store's minimum (maximum) date in
\* its place, the other bound and the four criteria still applied.
C7_BadBoundIsExtremeAsStated ==
    (filtered_df.called /\ Instants(df.rows) # {} /\ WellFormedSets) =>
        /\ (start_date = BadDateStr /\ end_date \in ValidDateStrs) =>
              filtered_df.frame.rows =
                  FilterBody(df, continents, countries, age_groups, request_types,
                             StoreMinDate, end_date).rows
        /\ (end_date = BadDateStr /\ start_date \in ValidDateStrs) =>
              filtered_df.frame.rows =
                  FilterBody(df, continents, countries, age_groups, request_types,
                             start_date, StoreMaxDate).rows

\* C7 amended: when start_date or end_date is a string that fails to parse as a
\* date, filter_dataframe fails open: it returns the whole input, with neither
\* the other bound nor any of the four criteria applied.
C7_BadBoundFailsOpen ==
    (filtered_df.called /\ BadDateStr \in { start_date, end_date }) =>
        /\ filtered_df.raised
        /\ filtered_df.frame.rows = df.rows

\* C7 witness: start_date does not parse, end_date and a criterion set would
\* each reject a record of the store, and both records are returned.
C7_Witness ==
    /\ filtered_df.called
    /\ start_date = BadDateStr
    /\ end_date \in ValidDateStrs
    /\ WellFormedSets
    /\ countries.items # {}
    /\ Len(df.rows) = 2
    /\ \E i \in DOMAIN df.rows : df.rows[i].country \notin countries.items
    /\ \E i \in DOMAIN df.rows :
          df.rows[i].timestamp # NaT /\ df.rows[i].timestamp \div HoursPerDay > DayOf(end_date)
    /\ filtered_df.frame.rows = df.rows

\* The records of the sequence that have a timestamp.
WithTimestamp(rows) == SelectSeq(rows, LAMBDA r : r.timestamp # NaT)

\* The record's date lies between the two valid bounds and every criterion
\* set accepts it; meant for records that have a timestamp.
MeetsCriteria(r) ==
    /\ DayOf(start_date) <= r.timestamp \div HoursPerDay
    /\ r.timestamp \div HoursPerDay <= DayOf(end_date)
    /\ Accepts(continents, r.continent)
    /\ Accepts(countries, r.country)
    /\ Accepts(age_groups, r.age_group)
    /\ Accepts(request_types, r.request_type)

\* C26: with valid date bounds and well-formed criterion sets, filter_dataframe
\* does not raise, no record with a null timestamp is in its output, and the
\* output is what the criteria select from the store's records that have a
\* timestamp: the records with a null timestamp change nothing about the rest.
C26_NullTimestampsUnmatched ==
    (filtered_df.called /\ ValidBounds /\ WellFormedSets) =>
        /\ ~filtered_df.raised
        /\ \A i \in DOMAIN filtered_df.frame.rows :
              filtered_df.frame.rows[i].timestamp # NaT
        /\ filtered_df.frame.rows = SelectSeq(WithTimestamp(df.rows), MeetsCriteria)

\* C26 witness: of a store holding a record without timestamp and a record
\* inside the date range, the call returned the second alone.
C26_Witness ==
    /\ filtered_df.called /\ ValidBounds /\ WellFormedSets
    /\ Len(df.rows) = 2
    /\ df.rows[1].timestamp = NaT
    /\ filtered_df.frame.rows = << df.rows[2] >>
-----------------------------------------------------------------------------
(* Claims about the dashboard session, checked under DashSpec.             *)

\* C8: the record store is read-only after load_data: no filter change, view
\* update, reset, navigation click or export changes df, also when
\* filter_dataframe fails open and hands the callback the store itself.
C8_StoreReadOnly == [][df' = df]_vars

\* C8 witness: update_time_series has run on the store itself, handed back by
\* a filter_dataframe call that failed open.
C8_Witness ==
    /\ view = "update_time_series"
    /\ filtered_df.called /\ filtered_df.raised /\ filtered_df.is_arg
    /\ Len(df.rows) >= 1
    /\ filtered_df.frame = df
-----------------------------------------------------------------------------
(* Claims about the session, checked under Spec.                           *)

\* C9: the dashboard is shown to a session only while it holds an
\* authenticated account: display_page never returns the dashboard layout to
\* a session in which nobody is logged in.
C9_DashboardGated == page_content = "dashboard_layout" => current_user # NoUser

\* C10: login logs the user in and navigates to '/dashboard' iff the username
\* is a key of USERS and the password equals the stored one exactly;
\* otherwise it reports 'Invalid username or password', stays on '/login' and
\* authenticates nobody; in both cases the credential mapping is unchanged.
C10_LoginIffExactMatch ==
    [][ last_call'.op = "login" =>
          LET u == last_call'.username
              p == last_call'.password
              ok == u \in DOMAIN USERS /\ USERS[u].password = p
          IN  /\ ok => /\ current_user' = u
                       /\ pathname' = "/dashboard"
                       /\ login_error' = ""
              /\ ~ok => /\ current_user' = current_user
                        /\ pathname' = "/login"
                        /\ login_error' = "Invalid username or password"
              /\ USERS' = USERS
              /\ users_file' = users_file ]_vars

\* C10 witness: admin's password typed with a capital letter is rejected, and
\* nobody is logged in.
C10_Witness ==
    /\ last_call = Call("login", "admin", "Password123", "", "")
    /\ "admin" \in DOMAIN USERS
    /\ login_error = "Invalid username or password"
    /\ pathname = "/login"
    /\ current_user = NoUser
\* The form values of a register_user call.
IsRegisterCall(c) == c.op = "register_user"
FieldMissing(c) ==
    c.username = "" \/ c.email = "" \/ c.password = "" \/ c.confirm = ""
PasswordMismatch(c) == c.password # c.confirm
DuplicateUsername(c) == c.username \in DOMAIN USERS
DuplicateEmail(c) == \E a \in DOMAIN USERS : USERS[a].email = c.email
FailsValidation(c) ==
    FieldMissing(c) \/ PasswordMismatch(c) \/ DuplicateUsername(c) \/ DuplicateEmail(c)

RegistrationSuccess ==
    [ error |-> "", success |-> "Registration successful! You can now log in." ]
SaveError ==
    [ error |-> "Error saving user data. Please try again.", success |-> "" ]

\* The error register_user must report for a call that fails validation.
ValidationOutcome(c) ==
    /\ FieldMissing(c) => register_msg'.error = "All fields are required."
    /\ ~FieldMissing(c) /\ PasswordMismatch(c) =>
          register_msg'.error = "Passwords do not match."
    /\ ~FieldMissing(c) /\ ~PasswordMismatch(c) /\ DuplicateUsername(c) =>
          register_msg'.error = "Username is already taken."
    /\ ~FieldMissing(c) /\ ~PasswordMismatch(c) /\ ~DuplicateUsername(c)
          /\ DuplicateEmail(c) =>
          register_msg'.error = "Email is already registered."
    /\ FailsValidation(c) => register_msg'.success = ""

\* C11 as stated: register_user reports the missing-field, mismatch,
\* duplicate-username or duplicate-email error (the user name one when both
\* are taken), and otherwise creates the account and reports success.
C11_RegisterOutcomeAsStated ==
    [][ IsRegisterCall(last_call') =>
          /\ ValidationOutcome(last_call')
          /\ ~FailsValidation(last_call') =>
                /\ last_call'.username \in DOMAIN USERS'
                /\ register_msg' = RegistrationSuccess ]_vars

\* C11 (amended): register_user reports the first failing check among missing
\* field, password mismatch, duplicate user name, duplicate e-mail; otherwise
\* it adds the account to the mapping and reports success when save_users
\* succeeded and 'Error saving user data' when it failed.
C11_RegisterOutcome ==
    [][ IsRegisterCall(last_call') =>
          LET c == last_call' IN
          /\ ValidationOutcome(c)
          /\ ~FailsValidation(c) =>
                /\ c.username \in DOMAIN USERS'
                /\ USERS'[c.username] = Account(c.username, c.password, c.email)
                /\ \/ /\ register_msg' = RegistrationSuccess
                      /\ pathname' = "/login"
                      /\ users_file' = PickleOf(USERS')
                   \/ /\ register_msg' = SaveError
                      /\ pathname' = pathname ]_vars

\* C11 witness: a valid registration of alice whose save failed.
C11_Witness ==
    /\ last_call = Call("register_user", "alice", "Secret1", "alice@example.com", "Secret1")
    /\ register_msg = SaveError
    /\ "alice" \in DOMAIN USERS

\* C12: a register_user call that fails validation leaves the credential
\* mapping, the credential file and the route as they were.
C12_FailedValidationChangesNothing ==
    [][ IsRegisterCall(last_call') /\ FailsValidation(last_call') =>
          /\ USERS' = USERS
          /\ users_file' = users_file
          /\ pathname' = pathname
          /\ page_content' = page_content
          /\ current_user' = current_user ]_vars

\* C12 witness: a new user name with admin's e-mail was rejected and
\* is not in the mapping.
C12_Witness ==
    /\ last_call = Call("register_user", "alice", "Secret1", "admin@example.com", "Secret1")
    /\ register_msg.error = "Email is already registered."
    /\ "alice" \notin DOMAIN USERS
    /\ pathname = "/register"

\* Every entry of the mapping is keyed by its own id and user name.
WellKeyed(users) ==
    \A u \in DOMAIN users : users[u].id = u /\ users[u].username = u

\* C14: accounts are never deleted or overwritten: every user name of the
\* mapping stays in it with the same password and e-mail, and every entry
\* satisfies key = id = username.
C14_AccountsKept ==
    /\ [] WellKeyed(USERS)
    /\ [][ \A u \in DOMAIN USERS :
              u \in DOMAIN USERS' /\ USERS'[u] = USERS[u] ]_vars

\* C14 witness: a registration under admin's user name was attempted, and
\* admin's account is as it was, next to a registered alice.
C14_Witness ==
    /\ last_call = Call("register_user", "admin", "Secret1", "alice@example.com", "Secret1")
    /\ register_msg.error = "Username is already taken."
    /\ USERS["admin"] = Account("admin", "password123", "admin@example.com")
    /\ "alice" \in DOMAIN USERS
-----------------------------------------------------------------------------
(* Claims about concurrent registrations, checked under RaceSpec.          *)

\* Thread t has returned and reported success.
Succeeded(t) == workers[t].pc = "done" /\ workers[t].result.success # ""

\* C13: two concurrent register_user calls with the same user name, or with
\* the same e-mail, never both succeed, and no two accounts of the mapping
\* share an e-mail.
C13_NoDoubleRegistration ==
    /\ \A s, t \in Threads :
          s # t /\ Succeeded(s) /\ Succeeded(t) =>
             /\ workers[s].username # workers[t].username
             /\ workers[s].email # workers[t].email
    /\ \A a, b \in DOMAIN USERS : a # b => USERS[a].email # USERS[b].email
-----------------------------------------------------------------------------
(* Claims about the view callbacks, checked under ViewSpec.                *)

\* The subset the last view callback computed.
Subset == filtered_df.frame.rows

\* The number of records of the subset with the value in the column.
NumberOf(column, value) ==
    Cardinality({ i \in DOMAIN Subset : Cell(Subset[i], column) = value })

\* C15: update_metrics reports total = the number of records of the subset
\* and demo, job, ai_assistant = the number of records whose request_type is
\* exactly that value; records with another or no request_type are counted in
\* the total only.
C15_MetricCounts ==
    view = "update_metrics" =>
       /\ view_out.kind = "metrics"
       /\ view_out.total = ToString(Len(Subset))
       /\ view_out.demo = ToString(NumberOf("request_type", "demo"))
       /\ view_out.job = ToString(NumberOf("request_type", "job"))
       /\ view_out.ai_assistant = ToString(NumberOf("request_type", "ai_assistant"))

\* C15 witness: a subset of a demo record and a record without request_type.
C15_Witness ==
    /\ view = "update_metrics"
    /\ Len(Subset) = 2
    /\ Subset[1].request_type = NaN
    /\ Subset[2].request_type = "demo"
    /\ view_out.total = "2"
    /\ view_out.demo = "1"
    /\ view_out.job = "0"

\* C16: the total update_metrics reports equals the sum of the counts of the
\* request_type distribution of update_request_type_pie on the same subset.
C16_TotalIsSumOfDistribution ==
    view = "update_metrics" =>
       LET counts == request_type_pie_body(Subset).data
       IN  view_out.total = ToString(SumOver(counts, DOMAIN counts))

\* The values of a column present in the subset.
Present(column) ==
    { Cell(Subset[i], column) : i \in DOMAIN Subset } \ { Missing(column) }

\* The position of a label in an order, 0 when it is not in it.
PositionIn(order, label) ==
    IF label \in Range(order) THEN CHOOSE k \in DOMAIN order : order[k] = label ELSE 0

\* A distribution lists the values of the column present in the subset, each
\* once with its count, in the given order.
ListsPresentInOrder(data, column, order) ==
    /\ { data[k][1] : k \in DOMAIN data } = Present(column)
    /\ \A k \in DOMAIN data :
          /\ data[k][2] = NumberOf(column, data[k][1])
          /\ data[k][2] > 0
    /\ \A j, k \in DOMAIN data :
          j < k => /\ data[j][1] # data[k][1]
                   /\ PositionIn(order, data[j][1]) < PositionIn(order, data[k][1])

\* C17: the age_group, day and month distributions list the categories
\* present in the subset in the fixed order, each with its record count, and
\* have no row for a category without records.
C17_OrderedDistributions ==
    /\ view = "update_age_group_chart" =>
          ListsPresentInOrder(view_out.data, "age_group", age_order)
    /\ view = "update_daily_chart" =>
          ListsPresentInOrder(view_out.data, "day", day_order)
    /\ view = "update_monthly_chart" =>
          ListsPresentInOrder(view_out.data, "month", month_order)

\* The records of a request type in the subset, and the hours they fall in.
RecordsOf(req_type) == { i \in DOMAIN Subset : Subset[i].request_type = req_type }
HoursOf(req_type) ==
    { DtHour(Subset[i].timestamp) : i \in RecordsOf(req_type) } \ { NaT }
InHour(req_type, h) ==
    Cardinality({ i \in RecordsOf(req_type) : DtHour(Subset[i].timestamp) = h })

\* C18: for each distinct request_type of the subset, update_statistics_table
\* reports total = its number of records, mean = total / number of distinct
\* hours with a record of the type, and peak hour = the smallest of the hours
\* with the largest count.
C18_StatisticsPerType ==
    view = "update_statistics_table" =>
       \A t \in Present("request_type") :
          /\ view_out.kind = "table"
          /\ \E k \in DOMAIN view_out.rows :
                LET row == view_out.rows[k] IN
                /\ row.request_type = t
                /\ row.total = Cardinality(RecordsOf(t))
                /\ row.mean = Format2f(RoundedHundredths(Cardinality(RecordsOf(t)),
                                                         Cardinality(HoursOf(t))))
                /\ \A h \in HoursOf(t) :
                      /\ InHour(t, h) <= InHour(t, row.peak_hour)
                      /\ InHour(t, h) = InHour(t, row.peak_hour) => row.peak_hour <= h

\* C19: a request_type whose records all fall in one hour has mean = that
\* bucket's count and the deviation 'nan'; one whose records fall in several
\* hours with equal counts has the deviation '0.00'.
C19_UndefinedDeviation ==
    view = "update_statistics_table" /\ view_out.kind = "table" =>
       \A k \in DOMAIN view_out.rows :
          LET row == view_out.rows[k]
              t == row.request_type
          IN  /\ ( /\ Cardinality(HoursOf(t)) = 1
                   /\ \A i \in RecordsOf(t) : Subset[i].timestamp # NaT ) =>
                    /\ row.mean = ToString(Cardinality(RecordsOf(t))) \o ".00"
                    /\ row.std = "nan"
              /\ ( /\ Cardinality(HoursOf(t)) >= 2
                   /\ \A g, h \in HoursOf(t) : InHour(t, g) = InHour(t, h) ) =>
                    row.std = "0.00"

\* C19 witness: two demo records in the same hour: one bucket of two.
C19_Witness ==
    /\ view = "update_statistics_table"
    /\ view_out.kind = "table"
    /\ Len(view_out.rows) = 1
    /\ view_out.rows[1].request_type = "demo"
    /\ view_out.rows[1].total = 2
    /\ view_out.rows[1].mean = "2.00"
    /\ view_out.rows[1].std = "nan"

\* What a view callback may return: its result or its placeholder.
Designated ==
    [ update_metrics |-> { "metrics" },
      update_request_type_pie |-> { "figure", "empty_figure" },
      update_age_group_chart |-> { "figure", "empty_figure" },
      update_daily_chart |-> { "figure", "empty_figure" },
      update_monthly_chart |-> { "figure", "empty_figure" },
      update_statistics_table |-> { "table", "div" },
      update_data_table |-> { "records" } ]

\* C20: no view callback lets an exception out: each returns its result or
\* its placeholder, and the statistics view returns 'No data available' on an
\* empty subset.
C20_ViewsNeverRaise ==
    view # "none" =>
       /\ view_out.kind # "raised"
       /\ view_out.kind \in Designated[view]
       /\ view = "update_statistics_table" /\ Subset = << >> =>
             view_out = [ kind |-> "div",
                          text |-> "No data available for the selected filters." ]

\* C20 witness: the statistics loop raised on a record without request_type
\* and the callback returned its error placeholder.
C20_Witness ==
    /\ view = "update_statistics_table"
    /\ \E i \in DOMAIN Subset : Subset[i].request_type = NaN
    /\ view_out.kind = "div"
    /\ view_out.text = "Error loading statistics. Please check the console for details."
-----------------------------------------------------------------------------
(* Claims about load_data, checked under LoadSpec.                         *)

Loaded == df # Unloaded

\* C21: load_data never yields an empty store: from a missing, unreadable or
\* faulty source it yields the placeholder of ten evenly spaced records with
\* country, continent, request_type and age_group 'Unknown', and a readable
\* source lacking one of these columns gets 'Unknown' in it for every record.
C21_NeverEmptyStore ==
    Loaded =>
       /\ Len(df.rows) > 0
       /\ source_file.state # "ok" =>
             /\ Len(df.rows) = PlaceholderLen
             /\ \A i \in DOMAIN df.rows :
                   /\ df.rows[i].timestamp # NaT
                   /\ i > 1 => df.rows[i].timestamp - df.rows[i - 1].timestamp
                                  = df.rows[2].timestamp - df.rows[1].timestamp
                   /\ \A c \in required_columns : df.rows[i][c] = "Unknown"
       /\ source_file.state = "ok" =>
             \A c \in required_columns \ source_file.columns :
                \A i \in DOMAIN df.rows : df.rows[i][c] = "Unknown"

\* C22 as stated: every record of the loaded store has a non-null timestamp,
\* whatever the source holds; without a time column the timestamps are one
\* hour apart in record order.
C22_NonNullTimestampsAsStated ==
    Loaded =>
       /\ \A i \in DOMAIN df.rows : df.rows[i].timestamp # NaT
       /\ source_file.state = "ok" /\ source_file.time_column = "none" =>
             \A i \in DOMAIN df.rows : df.rows[i].timestamp = i - 1

\* C22 (amended): a record of the loaded store has a null timestamp exactly
\* when the source is readable, has a time column, and the record's cell in
\* it is no date; without a time column the timestamps are one hour apart in
\* record order.
C22_NullOnlyWhereUnparseable ==
    Loaded =>
       /\ \A i \in DOMAIN df.rows :
             df.rows[i].timestamp = NaT <=>
                /\ source_file.state = "ok"
                /\ source_file.time_column # "none"
                /\ source_file.records[i].time = Unparseable
       /\ source_file.state = "ok" /\ source_file.time_column = "none" =>
             \A i \in DOMAIN df.rows : df.rows[i].timestamp = i - 1

\* C22 witness: a store loaded from a file whose first record has a date and
\* whose second has none.
C22_Witness ==
    /\ Loaded
    /\ source_file.state = "ok"
    /\ source_file.time_column = "log_time"
    /\ Len(df.rows) = 2
    /\ df.rows[1].timestamp = 5
    /\ df.rows[2].timestamp = NaT

\* C23: the continent of every record of the loaded store is the
\* country_to_continent entry of its country, 'Unknown' for a country without
\* entry.
C23_ContinentFromLookup ==
    Loaded =>
       \A i \in DOMAIN df.rows :
          df.rows[i].continent =
             IF df.rows[i].country \in DOMAIN country_to_continent
             THEN country_to_continent[df.rows[i].country]
             ELSE default_continent

-----------------------------------------------------------------------------
(* Claims about the credential file and the session, checked under Spec.   *)

\* C24: at start-up the credential mapping is the pickled mapping when
\* users.pickle is there and readable, and exactly the accounts admin and
\* user otherwise; a register_user call that passed validation reports
\* success exactly when users.pickle holds the whole new mapping afterwards,
\* and reports the save error otherwise.
C24_LoadAndSaveUsers ==
    /\ IF users_file.state = "ok" THEN USERS = users_file.users
       ELSE /\ DOMAIN USERS = { "admin", "user" }
            /\ USERS["admin"] = Account("admin", "password123", "admin@example.com")
            /\ USERS["user"] = Account("user", "password124", "user@example.com")
    /\ [][ IsRegisterCall(last_call') /\ ~FailsValidation(last_call') =>
              /\ register_msg' \in { RegistrationSuccess, SaveError }
              /\ register_msg' = RegistrationSuccess <=>
                    users_file' = PickleOf(USERS') ]_vars

\* C24 witness: the mapping came from the defaults because users.pickle was
\* missing, and the save of a registration failed without leaving a file.
C24_Witness ==
    /\ users_file.state = "absent"
    /\ last_call.op = "register_user"
    /\ register_msg = SaveError
    /\ USERS["user"] = Account("user", "password124", "user@example.com")

\* A login call whose credentials match an account.
SuccessfulLogin(c) ==
    /\ c.op = "login"
    /\ c.username \in DOMAIN USERS
    /\ USERS[c.username].password = c.password

\* C25 as stated: a clicked logout leaves no account authenticated and the
\* route '/login'; from there, no account is authenticated and the route is
\* '/login' until a login succeeds; logout without a click changes nothing.
C25_LogoutAsStated ==
    [][ /\ last_call'.op = "logout" =>
              current_user' = NoUser /\ pathname' = "/login"
        /\ last_call.op = "logout" /\ ~SuccessfulLogin(last_call') =>
              current_user' = NoUser /\ pathname' = "/login"
        /\ last_call'.op = "logout_no_click" =>
              UNCHANGED << USERS, users_file, pathname, current_user,
                           page_content, login_error, register_msg >> ]_vars

\* C25 (amended): a clicked logout leaves no account authenticated, the route
\* '/login' and the login page; an account becomes authenticated only by a
\* login whose credentials match, and it is that account; logout without a
\* click changes nothing.
C25_LogoutResetsSession ==
    [][ /\ last_call'.op = "logout" =>
              /\ current_user' = NoUser
              /\ pathname' = "/login"
              /\ page_content' = "login_layout"
        /\ current_user' # NoUser /\ current_user' # current_user =>
              /\ SuccessfulLogin(last_call')
              /\ current_user' = last_call'.username
        /\ last_call'.op = "logout_no_click" =>
              UNCHANGED << USERS, users_file, pathname, current_user,
                           page_content, login_error, register_msg >> ]_vars

\* C25 witness: a session that registered alice and logged in has logged out.
C25_Witness ==
    /\ last_call.op = "logout"
    /\ current_user = NoUser
    /\ pathname = "/login"
    /\ "alice" \in DOMAIN USERS
    /\ users_file.state = "ok"

\* C28: the credential mapping holds a new account only if register_user
\* reported success for it: a register_user call that reports the save error
\* leaves the mapping as it was, and a call that reports success leaves it
\* equal to the mapping written to users.pickle.
C28_MappingOnlyOnSuccess ==
    [][ IsRegisterCall(last_call') =>
          /\ register_msg' = SaveError => USERS' = USERS
          /\ register_msg' = RegistrationSuccess =>
                users_file' = PickleOf(USERS') ]_vars

-----------------------------------------------------------------------------
(* Claims about navigation, reset and the request-type views, checked      *)
(* under DashSpec.                                                         *)

\* The navigation buttons of dashboard_layout.
NavButtons == { "nav-home", "nav-map", "nav-time", "nav-requests", "nav-data" }

\* C27: the current-page value is one of home, map, time, requests, data;
\* exactly one navigation button is active; it is the button of the current
\* page.
C27_OneActiveButton ==
    /\ current_page \in { "home", "map", "time", "requests", "data" }
    /\ nav_active \subseteq NavButtons
    /\ Cardinality(nav_active) = 1
    /\ \A b \in nav_active : b = "nav-" \o current_page

\* C27 witness: after a click on 'nav-time' the page is time and that button
\* alone is active.
C27_Witness ==
    /\ current_page = "time"
    /\ nav_active = { "nav-time" }
    /\ view = "update_hourly_chart"

\* The six criteria hold what a reset gives: empty sets and the dates of the
\* store's minimum and maximum timestamp (null when no record has one).
AtResetValues ==
    /\ continents = List({})
    /\ countries = List({})
    /\ age_groups = List({})
    /\ request_types = List({})
    /\ IF Instants(df.rows) = {} THEN start_date = NoDate /\ end_date = NoDate
       ELSE start_date = StoreMinDate /\ end_date = StoreMaxDate

\* C29 as stated: a clicked reset leaves the four sets empty and the date
\* range spanning the store; a reset without a click leaves the six criteria
\* as they were; the subset a view computes from the reset criteria is the
\* full store.
C29_ResetAsStated ==
    /\ [][ /\ view' = "reset_filters" => AtResetValues'
           /\ view' = "reset_filters_no_click" => UNCHANGED criteriaVars ]_vars
    /\ [] ((filtered_df.called /\ AtResetValues) => filtered_df.frame.rows = df.rows)

\* C29 (amended): a clicked reset leaves the four sets empty and the date
\* range spanning the store; a reset without a click leaves the six criteria
\* as they were; the subset a view computes from the reset criteria is the
\* store's records that have a timestamp, so the full store when all have.
C29_ResetSelectsTimestamped ==
    /\ [][ /\ view' = "reset_filters" => AtResetValues'
           /\ view' = "reset_filters_no_click" => UNCHANGED criteriaVars ]_vars
    /\ [] ((filtered_df.called /\ AtResetValues) =>
              /\ filtered_df.frame.rows = WithTimestamp(df.rows)
              /\ (\A i \in DOMAIN df.rows : df.rows[i].timestamp # NaT)
                    => filtered_df.frame.rows = df.rows)

\* C29 witness: a view has computed its subset of a one-record store from
\* the criteria a reset left, and it is that record.
C29_Witness ==
    /\ view = "update_metrics"
    /\ filtered_df.called
    /\ AtResetValues
    /\ Len(df.rows) = 1
    /\ filtered_df.frame.rows = df.rows

\* The three request-type analysis views.
RequestViews ==
    { "update_request_type_pie_detailed", "update_request_time_series",
      "update_request_country_heatmap" }

\* The record meets every criterion but request_types.
MeetsAllButRequestTypes(r) ==
    /\ DayOf(start_date) <= r.timestamp \div HoursPerDay
    /\ r.timestamp \div HoursPerDay <= DayOf(end_date)
    /\ Accepts(continents, r.continent)
    /\ Accepts(countries, r.country)
    /\ Accepts(age_groups, r.age_group)

\* The subset the continents, countries, age_groups and date criteria give:
\* the whole store when one of them makes filtering raise, nothing when a
\* bound is null, the records meeting them otherwise.
SubsetWithoutRequestTypes ==
    IF \/ BadDateStr \in { start_date, end_date }
       \/ BareString \in { continents, countries, age_groups }
    THEN df.rows
    ELSE IF NoDate \in { start_date, end_date } THEN << >>
    ELSE SelectSeq(WithTimestamp(df.rows), MeetsAllButRequestTypes)

\* C30: the subset of each request-type analysis view is determined by the
\* store and the criteria other than request_types: it is the subset these
\* give with request_types empty, whatever request_types holds; the home-page
\* views apply request_types as well.
C30_RequestViewsIgnoreRequestTypes ==
    /\ view \in RequestViews => filtered_df.frame.rows = SubsetWithoutRequestTypes
    /\ (view \in { "update_metrics", "update_time_series" }
          /\ ValidBounds /\ WellFormedSets) =>
          filtered_df.frame.rows = SelectSeq(WithTimestamp(df.rows), MeetsCriteria)

\* C30 witness: with request types selected, the heatmap's subset holds a
\* record of another request type.
C30_Witness ==
    /\ view = "update_request_country_heatmap"
    /\ request_types.items # {}
    /\ Len(filtered_df.frame.rows) = 1
    /\ filtered_df.frame.rows[1].request_type \notin request_types.items
=============================================================================
